---- MODULE Spec2Model ----
(***************************************************************************)
(* Model of the strategic bug fixer: the fix engine (src/bug-fixer.js) and *)
(* the CI driver (ci-bug-fixer.js).  File contents and proposer responses  *)
(* are sequences of one-character strings, so that the normalisation of a  *)
(* response (extractCleanCode) is computed character by character.         *)
(***************************************************************************)
EXTENDS Integers, Sequences, FiniteSets, TLC

VARIABLES
    mode,   \* entry point in use: "single" (fixBug called directly), "ci" (runCIFix), ...
    disk,   \* the working tree: file name -> [exists, content]
    att,    \* attempt slot -> the state of the fixBug call running in it
    ci,     \* the state of the runCIFix call
    rt,     \* the state of the runCIFixWithRetries call (the retry session)
    spent,  \* cost incurred today by the proposer calls that returned
    par,    \* the state of the fixBugsParallel call
    ledger, \* a cost tracker made by createCostTracker, its clock and its callers
    calc,   \* the last call of a pure function: its arguments and its value
    exit,   \* the exit of the command's process: whether it has exited, and its code
    tests   \* the test command: what decides the outcome of a run

vars == <<mode, disk, att, ci, rt, spent, par, ledger, calc, exit, tests>>

----------------------------------------------------------------------------
(* Bounds and value sets *)

NumFiles == 2

\* The last day of the ledger's clock (days are numbered from 0).
MaxDay == 2

\* The largest number of fixes a ledger counts.
MaxFixes == 4

\* The largest number of tokens of a proposer text given to extractCleanCode.
MaxTokens == 4

\* The largest number of characters of a text given to countChangedLines.
MaxChars == 3

\* The largest maxRetries option explored.
MaxRetries == 2

FileNames == <<"./cart.js", "./utils.js", "./api.js", "./app.js">>

Files == {FileNames[i] : i \in 1..NumFiles}

Attempts == {1, 2}

NL == "\n"
\* "~" stands for the backquote character, which the fence marker is made of.
BT == "~"

Fence == <<BT, BT, BT>>
Javascript == <<"j", "a", "v", "a", "s", "c", "r", "i", "p", "t">>
Js == <<"j", "s">>

\* The content every existing file starts with.
OriginalContent == <<"a">>

\* Raw texts the proposer may return.
FencedResponse == <<BT, BT, BT, "j", "s", NL, "x", NL, BT, BT, BT>>

RawResponses ==
    { FencedResponse,                                      \* fenced block with a language tag
      <<" ", "y", NL>>,                                    \* plain code with surrounding whitespace
      <<BT, BT, BT, NL, BT, BT, BT>> }                     \* a fenced block with nothing inside

\* Results of the external budget check isWithinLimits(estimatedCost).
LimitChecks ==
    { [allowed |-> TRUE,  reason |-> ""],
      [allowed |-> FALSE, reason |-> "Daily limit exceeded"],
      [allowed |-> FALSE, reason |-> ""] }

ProposerErrors == {"API error", "Request timed out"}

\* The texts generateText returns.  A retry session is explored with the
\* fenced response only: its rounds multiply every choice made in an attempt.
GeneratedTexts == IF mode = "retries" THEN {FencedResponse} ELSE RawResponses

\* Cost limits in dollars: $10 per day, $2 per operation.
DailyLimit == 10
PerOperationLimit == 2

DefaultLimits == [daily |-> DailyLimit, perOperation |-> PerOperationLimit]

\* Values of estimateCost(model, code, maxTokens), in dollars.
EstimatedCosts == {2, 3}

\* The counter of the cost incurred stops counting here.
SpendCap == 12


----------------------------------------------------------------------------
(* Pure functions of src/bug-fixer.js *)

IsWhitespace(c) == c \in {" ", NL, "\t", "\r"}

RECURSIVE TrimStart(_)
TrimStart(s) ==
    IF s # <<>> /\ IsWhitespace(Head(s)) THEN TrimStart(Tail(s)) ELSE s

RECURSIVE TrimEnd(_)
TrimEnd(s) ==
    IF s # <<>> /\ IsWhitespace(s[Len(s)]) THEN TrimEnd(SubSeq(s, 1, Len(s) - 1)) ELSE s

trim(s) == TrimEnd(TrimStart(s))

startsWith(s, p) == Len(s) >= Len(p) /\ SubSeq(s, 1, Len(p)) = p

endsWith(s, p) == Len(s) >= Len(p) /\ SubSeq(s, Len(s) - Len(p) + 1, Len(s)) = p

Drop(s, n) == SubSeq(s, n + 1, Len(s))

DropLast(s, n) == SubSeq(s, 1, Len(s) - n)

\* cleaned.replace(/^FENCE(?:javascript|js)?NL?/, empty)
stripOpeningFence(s) ==
    IF ~startsWith(s, Fence) THEN s
    ELSE LET a == Drop(s, 3)
             b == IF startsWith(a, Javascript) THEN Drop(a, Len(Javascript))
                  ELSE IF startsWith(a, Js) THEN Drop(a, Len(Js))
                  ELSE a
         IN  IF startsWith(b, <<NL>>) THEN Drop(b, 1) ELSE b

\* cleaned.replace(/NL?FENCE$/, empty)
stripClosingFence(s) ==
    IF ~endsWith(s, Fence) THEN s
    ELSE LET a == DropLast(s, 3)
         IN  IF endsWith(a, <<NL>>) THEN DropLast(a, 1) ELSE a

extractCleanCode(aiResponse) ==
    LET cleaned == trim(aiResponse)
    IN  IF startsWith(cleaned, Fence)
        THEN trim(stripClosingFence(stripOpeningFence(cleaned)))
        ELSE trim(cleaned)

Min(x, y) == IF x <= y THEN x ELSE y

\* text.split(NL)
RECURSIVE split(_)
split(text) ==
    IF \A i \in 1..Len(text) : text[i] # NL THEN <<text>>
    ELSE LET i == CHOOSE j \in 1..Len(text) :
                     text[j] = NL /\ \A k \in 1..(j - 1) : text[k] # NL
         IN  <<SubSeq(text, 1, i - 1)>> \o split(SubSeq(text, i + 1, Len(text)))

Max(x, y) == IF x >= y THEN x ELSE y

\* originalLines[i] !== fixedLines[i], where an index past the end of an
\* array gives undefined, which differs from every string.
LineDiffers(originalLines, fixedLines, i) ==
    IF i <= Len(originalLines) /\ i <= Len(fixedLines)
    THEN originalLines[i] # fixedLines[i]
    ELSE i <= Len(originalLines) \/ i <= Len(fixedLines)

\* The loop for (i = 0; i < maxLength; i++), from position i on.
RECURSIVE CountFrom(_, _, _, _)
CountFrom(originalLines, fixedLines, i, maxLength) ==
    IF i > maxLength THEN 0
    ELSE (IF LineDiffers(originalLines, fixedLines, i) THEN 1 ELSE 0)
            + CountFrom(originalLines, fixedLines, i + 1, maxLength)

countChangedLines_common(original, fixed) ==
    LET originalLines == split(original)
        fixedLines == split(fixed)
    IN  CountFrom(originalLines, fixedLines, 1,
                  Min(Len(originalLines), Len(fixedLines)))

countChangedLines(original, fixed) ==
    LET originalLines == split(original)
        fixedLines == split(fixed)
    IN  CountFrom(originalLines, fixedLines, 1,
                  Max(Len(originalLines), Len(fixedLines)))

createSuccessResult(originalCode, fixedCode, filename) ==
    [success |-> TRUE, filename |-> filename,
     originalCode |-> originalCode, fixedCode |-> fixedCode,
     linesChanged |-> countChangedLines(originalCode, fixedCode)]

createErrorResult(filename, message) ==
    [success |-> FALSE, filename |-> filename, error |-> message]

----------------------------------------------------------------------------
(* The fix engine: one fixBug call, step by step *)

NoLedger == [made |-> FALSE]

NoCall == [op |-> "none"]

\* The process is running.
NoExit == [exited |-> FALSE, code |-> 0]

\* The test command as the claims about single calls and rounds take it: the
\* outcome of each run is free.
FreeTests == [deterministic |-> FALSE, passing |-> {}, failing |-> {}]

\* The test command as a function of the working tree: nothing is known of it
\* but that a tree it has passed or failed gets the same outcome again.
FunctionOfTree == [deterministic |-> TRUE, passing |-> {}, failing |-> {}]

\* The outcomes execSync(command) can have on the working tree d.
Verdicts(t, d) ==
    IF ~t.deterministic THEN BOOLEAN
    ELSE IF d \in t.passing THEN {TRUE}
    ELSE IF d \in t.failing THEN {FALSE}
    ELSE BOOLEAN

\* The test command after a run on the working tree d.
Observed(t, d, success) ==
    IF ~t.deterministic THEN t
    ELSE IF success THEN [t EXCEPT !.passing = @ \cup {d}]
    ELSE [t EXCEPT !.failing = @ \cup {d}]

NoResult == [success |-> FALSE, filename |-> "", error |-> "(none yet)"]

NoCheck == [allowed |-> TRUE, reason |-> ""]

IdleAttempt ==
    [pc |-> "idle", filename |-> "", originalCode |-> <<>>, text |-> <<>>,
     fixedCode |-> <<>>, check |-> NoCheck, trackerAvailable |-> FALSE,
     usage |-> FALSE, trackCalls |-> 0, tracked |-> FALSE,
     testSuccess |-> FALSE, thrown |-> "", estimatedCost |-> 0,
     result |-> NoResult, log |-> <<>>,
     before |-> [exists |-> FALSE, content |-> <<>>],
     after |-> [exists |-> FALSE, content |-> <<>>]]

Logged(s, event) == [s EXCEPT !.log = Append(@, event)]

\* existsSync(filename)
fileExists(f) == disk[f].exists

\* The catch clause of fixBug: every exception becomes an error result.
fixBugCatch_rethrow(s, message) ==
    [s EXCEPT !.pc = "threw", !.log = Append(@, "throw")]

fixBugCatch_generic(s, message) ==
    [s EXCEPT !.pc = "done",
              !.result = createErrorResult(s.filename, "Unknown error"),
              !.log = Append(@, "return")]

fixBugCatch(s, message) ==
    [s EXCEPT !.pc = "done",
              !.result = createErrorResult(s.filename, message),
              !.log = Append(@, "return")]

\* The ghost fields before/after record the file as it is when the call
\* starts and when it returns.
AtReturn(s, d) ==
    IF s.pc \in {"done", "threw"} THEN [s EXCEPT !.after = d[s.filename]] ELSE s

\* fixBug up to its first suspension: existence check, then the read is issued.
MissingFile_ignored(f) == FALSE

MissingFile(f) == ~fileExists(f)

fixBugCall(f) ==
    LET s0 == [IdleAttempt EXCEPT !.filename = f, !.before = disk[f],
                                  !.log = <<"fileExists">>]
    IN  IF MissingFile(f)
        THEN fixBugCatch(s0, "File not found")
        ELSE [s0 EXCEPT !.pc = "reading"]

\* limitCheck.reason || "Cost limit exceeded. Estimated: ..."
LimitMessage(check) ==
    IF check.reason # "" THEN check.reason ELSE "Cost limit exceeded"

LimitExceeded_never(check) == FALSE

LimitExceeded(check) == ~check.allowed

\* isWithinLimits(cost, dailySpend, limits) of the agent-configuration package.
isWithinLimits(cost, dailySpend, limits) ==
    [allowed |-> dailySpend + cost <= limits.daily /\ cost <= limits.perOperation,
     withinDaily |-> dailySpend + cost <= limits.daily,
     withinPerOperation |-> cost <= limits.perOperation,
     dailyRemaining |-> limits.daily - dailySpend]

\* isWithinLimits(estimatedCost): the call passes the estimate only, so the
\* check is made against a daily spend of zero and the default limits.
limitCheckAllowed(estimatedCost) ==
    isWithinLimits(estimatedCost, 0, DefaultLimits).allowed

\* analyzeAndFix up to the generateText call: the budget gate.
analyzeAndFixGate(s, check) ==
    LET s1 == Logged([s EXCEPT !.check = check], "isWithinLimits")
    IN  IF LimitExceeded(check)
        THEN fixBugCatch(s1, LimitMessage(check))
        ELSE Logged([s1 EXCEPT !.pc = "proposing"], "generateText")

\* readFileContent returns; analyzeAndFix runs up to the proposer call.
ReadDone(a) ==
    /\ att[a].pc = "reading"
    /\ \E estimatedCost \in EstimatedCosts, check \in LimitChecks :
         /\ check.allowed = limitCheckAllowed(estimatedCost)
         /\ LET s1 == Logged([att[a] EXCEPT
                                !.originalCode = disk[att[a].filename].content,
                                !.estimatedCost = estimatedCost],
                             "readFile")
            IN  att' = [att EXCEPT ![a] = AtReturn(analyzeAndFixGate(s1, check), disk)]
    /\ UNCHANGED <<mode, disk, ci, rt, spent, par, ledger, calc, exit, tests>>

\* readFileContent rejects (I/O fault).
ReadFault(a) ==
    /\ att[a].pc = "reading"
    /\ att' = [att EXCEPT ![a] =
                 AtReturn(fixBugCatch(Logged(att[a], "readFault"), "EIO: read"), disk)]
    /\ UNCHANGED <<mode, disk, ci, rt, spent, par, ledger, calc, exit, tests>>

\* return extractCleanCode(text): the normalized code of each text the
\* proposer returns.
CleanCodes == [text \in RawResponses |-> extractCleanCode(text)]

\* The write of the patch is issued (first statement of applyAndTest).
applyAndTestCall(s) ==
    [s EXCEPT !.pc = "writing", !.fixedCode = CleanCodes[s.text]]

TrackerUsable_ignoringUsage(available, usage) == available

\* if (costTracker.isAvailable() && usage)
TrackerUsable(available, usage) == available /\ usage

\* generateText resolves with a text; the cost is tracked if the tracker is
\* available and the response carries usage data.
ProposerReturn(a) ==
    /\ att[a].pc = "proposing"
    /\ \E raw \in GeneratedTexts, available \in BOOLEAN, usage \in BOOLEAN :
         LET s1 == Logged([att[a] EXCEPT !.text = raw, !.trackerAvailable = available,
                                         !.usage = usage], "generated")
         IN  att' = [att EXCEPT ![a] =
                       IF TrackerUsable(available, usage)
                       THEN Logged([s1 EXCEPT !.pc = "tracking", !.trackCalls = @ + 1],
                                   "trackCost")
                       ELSE applyAndTestCall(s1)]
    /\ spent' = Min(spent + att[a].estimatedCost, SpendCap)
    /\ UNCHANGED <<mode, disk, ci, rt, par, ledger, calc, exit, tests>>

\* generateText rejects.
ProposerThrow(a) ==
    /\ att[a].pc = "proposing"
    /\ \E message \in ProposerErrors :
         att' = [att EXCEPT ![a] =
                   AtReturn(fixBugCatch(Logged([att[a] EXCEPT !.thrown = message],
                                               "generateFailed"), message), disk)]
    /\ UNCHANGED <<mode, disk, ci, rt, spent, par, ledger, calc, exit, tests>>

\* trackCost resolves or rejects; a rejection is only logged.
TrackDone(a) ==
    /\ att[a].pc = "tracking"
    /\ \E ok \in BOOLEAN :
         att' = [att EXCEPT ![a] = applyAndTestCall([att[a] EXCEPT !.tracked = ok])]
    /\ UNCHANGED <<mode, disk, ci, rt, spent, par, ledger, calc, exit, tests>>

writeFileContent_tree(d, filename, content) ==
    [f \in DOMAIN d |-> [exists |-> TRUE, content |-> content]]

\* writeFile(filename, content, 'utf8') on the working tree d.
writeFileContent(d, filename, content) ==
    [d EXCEPT ![filename] = [exists |-> TRUE, content |-> content]]

\* writeFileContent(filename, fixedCode) completes.
WriteComplete(a) ==
    /\ att[a].pc = "writing"
    /\ disk' = writeFileContent(disk, att[a].filename, att[a].fixedCode)
    /\ att' = [att EXCEPT ![a] = Logged([att[a] EXCEPT !.pc = "written"], "write")]
    /\ UNCHANGED <<mode, ci, rt, spent, par, ledger, calc, exit, tests>>

\* writeFileContent(filename, fixedCode) rejects; the file is left as it was.
WriteFault(a) ==
    /\ att[a].pc = "writing"
    /\ att' = [att EXCEPT ![a] =
                 AtReturn(fixBugCatch(Logged(att[a], "writeFault"), "EIO: write"), disk)]
    /\ UNCHANGED <<mode, disk, ci, rt, spent, par, ledger, calc, exit, tests>>

TestsPassed_always(testSuccess) == TRUE

TestsPassed(testSuccess) == testSuccess

\* runTests(config.testCommand) after the write, and the branch on its result.
TestRun(a) ==
    /\ att[a].pc = "written"
    /\ \E testSuccess \in Verdicts(tests, disk) :
         /\ tests' = Observed(tests, disk, testSuccess)
         /\ LET s1 == Logged([att[a] EXCEPT !.testSuccess = testSuccess],
                             IF testSuccess THEN "testsPass" ELSE "testsFail")
            IN  att' = [att EXCEPT ![a] =
                          IF TestsPassed(testSuccess)
                          THEN AtReturn(Logged([s1 EXCEPT
                                   !.pc = "done",
                                   !.result = createSuccessResult(s1.originalCode,
                                                  s1.fixedCode, s1.filename)],
                                   "return"), disk)
                          ELSE [s1 EXCEPT !.pc = "rollback"]]
    /\ UNCHANGED <<mode, disk, ci, rt, spent, par, ledger, calc, exit>>

\* writeFileContent(filename, originalCode) completes; the failure is returned.
RollbackComplete(a) ==
    /\ att[a].pc = "rollback"
    /\ disk' = writeFileContent(disk, att[a].filename, att[a].originalCode)
    /\ att' = [att EXCEPT ![a] =
                 AtReturn(Logged([Logged(att[a], "rollback") EXCEPT
                            !.pc = "done",
                            !.result = createErrorResult(att[a].filename,
                                           "Tests failed after applying fix")],
                          "return"), disk')]
    /\ UNCHANGED <<mode, ci, rt, spent, par, ledger, calc, exit, tests>>

\* writeFileContent(filename, originalCode) rejects; the patch stays on disk
\* and the rejection reaches the catch clause of fixBug.
RollbackFault(a) ==
    /\ att[a].pc = "rollback"
    /\ att' = [att EXCEPT ![a] =
                 AtReturn(fixBugCatch(Logged(att[a], "rollbackFault"), "EIO: write"), disk)]
    /\ UNCHANGED <<mode, disk, ci, rt, spent, par, ledger, calc, exit, tests>>

----------------------------------------------------------------------------
(* Direct use: fixBug(filename) is called for any file name, one call at a time *)

SingleCall ==
    /\ mode = "single"
    /\ att[1].pc \in {"idle", "done"}
    /\ \E f \in Files : att' = [att EXCEPT ![1] = AtReturn(fixBugCall(f), disk)]
    /\ UNCHANGED <<mode, disk, ci, rt, spent, par, ledger, calc, exit, tests>>

----------------------------------------------------------------------------
(* The single-file command: main of bug-fixer.js *)

\* argv[2] when the command line gives no file name.
NoFilename == ""

\* process.exit(code)
Exited(code) == [exited |-> TRUE, code |-> code]

\* if (result.success) process.exit(0), and process.exit(1) after it
fixExitCode(result) == IF result.success THEN 0 ELSE 1

\* main up to its first suspension: the usage error, the missing file, or
\* the call of fixBug.
Main ==
    /\ mode = "command"
    /\ ~exit.exited
    /\ att[1].pc = "idle"
    /\ \E filename \in Files \cup {NoFilename} :
         IF filename = NoFilename \/ ~fileExists(filename)
         THEN /\ exit' = Exited(1)
              /\ att' = att
         ELSE /\ att' = [att EXCEPT ![1] = AtReturn(fixBugCall(filename), disk)]
              /\ exit' = exit
    /\ UNCHANGED <<mode, disk, ci, rt, spent, par, ledger, calc, tests>>

\* The awaited fixBug call settles and main exits; a rejection reaches
\* main().catch, which exits with 1.
MainExit ==
    /\ mode = "command"
    /\ ~exit.exited
    /\ att[1].pc \in {"done", "threw"}
    /\ exit' = IF att[1].pc = "threw" THEN Exited(1)
               ELSE Exited(fixExitCode(att[1].result))
    /\ UNCHANGED <<mode, disk, att, ci, rt, spent, par, ledger, calc, tests>>

----------------------------------------------------------------------------
(* The CI driver: runCIFix *)

GitSteps == {"config", "stage", "commit", "push"}

Field(r, k) == IF k \in DOMAIN r THEN r[k] ELSE "undefined"

HasField(r, k) == k \in DOMAIN r

CountSuccess(fixes) == Cardinality({i \in 1..Len(fixes) : fixes[i].success})

CountFailed_testsOnly(fixes) ==
    Cardinality({i \in 1..Len(fixes) :
                    Field(fixes[i], "error") = "Tests failed after applying fix"})

CountFailed(fixes) == Cardinality({i \in 1..Len(fixes) : ~fixes[i].success})

\* { totalAttempted, successful, failed, fixes, ...metadata }
createCIResult(fixes, metadata) ==
    metadata @@ [totalAttempted |-> Len(fixes),
                 successful |-> CountSuccess(fixes),
                 failed |-> CountFailed(fixes),
                 fixes |-> fixes]

commitFixes_unstaged(shouldPush, ok) ==
    IF ~ok["commit"]
    THEN [steps |-> <<"config", "stage", "commit">>,
          value |-> [success |-> FALSE, error |-> "Failed to commit changes"]]
    ELSE [steps |-> <<"config", "stage", "commit">>,
          value |-> [success |-> TRUE, committed |-> TRUE, pushed |-> FALSE]]

\* commitFixes(message, shouldPush); ok tells which git commands succeed.
\* The value is the returned object together with the git steps executed.
\* A failed configureGit is only logged: staging is attempted all the same.
commitFixes(shouldPush, ok) ==
    IF ~ok["stage"]
    THEN [steps |-> <<"config", "stage">>,
          value |-> [success |-> FALSE, error |-> "Failed to stage changes"]]
    ELSE IF ~ok["commit"]
    THEN [steps |-> <<"config", "stage", "commit">>,
          value |-> [success |-> FALSE, error |-> "Failed to commit changes"]]
    ELSE IF shouldPush /\ ~ok["push"]
    THEN [steps |-> <<"config", "stage", "commit", "push">>,
          value |-> [success |-> FALSE, error |-> "Failed to push changes",
                     committed |-> TRUE]]
    ELSE [steps |-> IF shouldPush THEN <<"config", "stage", "commit", "push">>
                    ELSE <<"config", "stage", "commit">>,
          value |-> [success |-> TRUE, committed |-> TRUE, pushed |-> shouldPush]]

\* The git commands executed by a commitFixes call, each with its outcome.
GitTrace(steps, ok) == [i \in 1..Len(steps) |-> [step |-> steps[i], ok |-> ok[steps[i]]]]

\* Files of the working tree that are not source files: two test files and
\* a file of a vendored dependency.
TestFilePaths == {"./cart.test.js", "./__tests__/cart.js"}

VendoredPaths == {"./node_modules/lib.js"}

Paths == Files \cup TestFilePaths \cup VendoredPaths

\* name.includes(".test."), name.includes("test") and
\* name.includes("node_modules"), for the names above.
IncludesDotTest(path) == path \in {"./cart.test.js"}

IncludesTest(path) == path \in {"./cart.test.js", "./__tests__/cart.js"}

IncludesNodeModules(path) == path \in {"./node_modules/lib.js"}

\* A file name as the output spells it: the path with its leading "./" or
\* without it ("cart.js" for "./cart.js").
Written(path, dotSlash) == [path |-> path, dotSlash |-> dotSlash]

\* name.startsWith("./") ? name : "./" + name
WithDotSlash(name) == name.path

\* A test output, as far as the two regular expressions read it: the file of
\* the first stack frame "at fn (file.js:l:c)", if any, and the files
\* mentioned as "at|in|from file.js", in the order of the text.  The second
\* expression admits no dot before ".js", so a mentioned name has no leading
\* "./" and is no "x.test.js".
NoFrame == Written("", FALSE)

TestOutputs ==
    {[frame |-> f, mentions |-> m] :
        f \in {NoFrame} \cup {Written(g, TRUE) : g \in Files},
        m \in {<<>>} \cup {<<Written(g, FALSE)>> : g \in Files}}

\* The output of a passing test run: no stack frame, no file mentioned.
PassOutput == [frame |-> NoFrame, mentions |-> <<>>]

\* parseTestOutput(output).file: the stack frame's file, unless it is a
\* ".test." file or under node_modules, or else the fallback.
parseTestOutput(output) ==
    [file |-> IF /\ output.frame # NoFrame
                 /\ ~IncludesDotTest(output.frame.path)
                 /\ ~IncludesNodeModules(output.frame.path)
              THEN WithDotSlash(output.frame)
              ELSE FileNames[1]]

\* files.add(f) of a Set, which keeps insertion order and ignores duplicates.
SetAdd(files, f) ==
    IF \E i \in 1..Len(files) : files[i] = f THEN files ELSE Append(files, f)

RECURSIVE AddMentions(_, _)
AddMentions(files, mentions) ==
    IF mentions = <<>> THEN files
    ELSE LET file == Head(mentions)
             path == WithDotSlash(file)
         IN  AddMentions(IF /\ ~IncludesTest(file.path)
                            /\ ~IncludesNodeModules(file.path)
                            /\ fileExists(path)
                         THEN SetAdd(files, path)
                         ELSE files,
                         Tail(mentions))

\* identifyFilesToFix(output): the primary file, then the mentioned ones;
\* only files that exist, each once.
identifyFilesToFix(output) ==
    LET parsed == parseTestOutput(output)
    IN  AddMentions(IF fileExists(parsed.file) THEN <<parsed.file>> ELSE <<>>,
                    output.mentions)

IdleRetry ==
    [pc |-> "idle", maxRetries |-> 0, autoCommit |-> FALSE, autoPush |-> FALSE,
     attempt |-> 0,
     rounds |-> 0, reruns |-> <<>>, result |-> [pending |-> TRUE]]

\* The fields initialPassed, started, diskAtStart and spentAtStart record the
\* history of the round; the code does not keep them.
IdleCI ==
    [pc |-> "idle", autoCommit |-> FALSE, autoPush |-> FALSE,
     initialPassed |-> FALSE, testOutput |-> PassOutput,
     filesToFix |-> <<>>, started |-> <<>>, fixes |-> <<>>, git |-> <<>>,
     diskAtStart |-> <<>>, spentAtStart |-> 0,
     result |-> [pending |-> TRUE]]

roundState_carried(previous) == [previous EXCEPT !.pc = "idle", !.git = <<>>]

\* The locals of a runCIFix call (config, fixes, result): every call starts
\* with its own, nothing of an earlier call is visible to it.
roundState(previous) == IdleCI

InitialTestsPassed_never(testSuccess) == FALSE

\* if (initialTest.success)
InitialTestsPassed(testSuccess) == testSuccess

noFilesResult_bare(testOutput) == createCIResult(<<>>, [message |-> "No fixes needed"])

\* createCIResult([], { error: 'Could not identify files to fix', testOutput })
noFilesResult(testOutput) ==
    createCIResult(<<>>, [error |-> "Could not identify files to fix",
                          testOutput |-> testOutput])

\* runCIFix(options) up to its first suspension: the initial test run, the
\* identification of the files, and the call of fixBug for the first one.
\* The value is the state of the call and of the attempt slot.
runCIFixCall(options, testSuccess, testOutput) ==
    LET c0 == [roundState(ci) EXCEPT !.autoCommit = options.autoCommit,
                             !.autoPush = options.autoPush,
                             !.initialPassed = testSuccess,
                             !.testOutput = testOutput,
                             !.diskAtStart = disk,
                             !.spentAtStart = spent]
        filesToFix == identifyFilesToFix(testOutput)
    IN  IF InitialTestsPassed(testSuccess)
        THEN [ci |-> [c0 EXCEPT !.pc = "done",
                                !.result = createCIResult(<<>>,
                                    [testsPassedInitially |-> TRUE,
                                     message |-> "No fixes needed"])],
              att |-> att]
        ELSE IF Len(filesToFix) = 0
        THEN [ci |-> [c0 EXCEPT !.pc = "done", !.result = noFilesResult(testOutput)],
              att |-> att]
        ELSE [ci |-> [c0 EXCEPT !.pc = "fixing", !.filesToFix = filesToFix,
                                !.started = <<filesToFix[1]>>],
              att |-> [att EXCEPT ![1] = AtReturn(fixBugCall(filesToFix[1]), disk)]]

\* The outcomes of a test run: it passes, or it fails with some output.
TestRuns ==
    {[success |-> TRUE, output |-> PassOutput]}
        \cup {[success |-> FALSE, output |-> o] : o \in TestOutputs}

RunCIFix ==
    /\ mode = "ci"
    /\ ci.pc = "idle"
    /\ \E autoCommit \in BOOLEAN, autoPush \in BOOLEAN, test \in TestRuns :
         LET call == runCIFixCall([autoCommit |-> autoCommit, autoPush |-> autoPush],
                                  test.success, test.output)
         IN  /\ test.success \in Verdicts(tests, disk)
             /\ tests' = Observed(tests, disk, test.success)
             /\ ci' = call.ci
             /\ att' = call.att
    /\ UNCHANGED <<mode, disk, rt, spent, par, ledger, calc, exit>>

AttemptSettled_early(s) == TRUE

\* await fixBug(...): the loop goes on when the attempt has settled.
AttemptSettled(s) == s.pc \in {"done", "threw"}

commitResultFields_silent(commitResult) == [committed |-> TRUE]

\* committed: commitResult.success, commitError: commitResult.error
commitResultFields(commitResult) ==
    [committed |-> commitResult.success,
     commitError |-> Field(commitResult, "error")]

\* The awaited fixBug call settles: its result is pushed and either the next
\* file is attempted or the round's result is built (and committed).
CIAttemptSettled ==
    /\ mode \in {"ci", "retries"}
    /\ ci.pc = "fixing"
    /\ AttemptSettled(att[1])
    /\ IF att[1].pc = "threw"
       THEN /\ ci' = [ci EXCEPT !.pc = "threw"]
            /\ att' = att
       ELSE LET fixes == Append(ci.fixes, att[1].result)
            IN  IF Len(fixes) < Len(ci.filesToFix)
                THEN /\ ci' = [ci EXCEPT !.fixes = fixes,
                                         !.started = Append(@, ci.filesToFix[Len(fixes) + 1])]
                     /\ att' = [att EXCEPT ![1] =
                                  AtReturn(fixBugCall(ci.filesToFix[Len(fixes) + 1]), disk)]
                ELSE /\ att' = [att EXCEPT ![1] = IdleAttempt]
                     /\ LET result == createCIResult(fixes, [testOutput |-> ci.testOutput])
                        IN  IF ci.autoCommit /\ result.successful > 0
                            THEN \E ok \in [GitSteps -> BOOLEAN] :
                                   LET commitResult == commitFixes(ci.autoPush, ok)
                                   IN  ci' = [ci EXCEPT
                                         !.pc = "done", !.fixes = fixes,
                                         !.git = GitTrace(commitResult.steps, ok),
                                         !.result =
                                            commitResultFields(commitResult.value) @@ result]
                            ELSE ci' = [ci EXCEPT !.pc = "done", !.fixes = fixes,
                                                  !.result = result]
    /\ UNCHANGED <<mode, disk, rt, spent, par, ledger, calc, exit, tests>>

----------------------------------------------------------------------------
(* fixBugsParallel *)

IdlePar == [pc |-> "idle", input |-> <<>>, result |-> <<>>]

\* The batches explored: one or two entries, the same file twice included.
Batches == UNION {[1..n -> Files] : n \in 1..Cardinality(Attempts)}

\* fixes.map(... => fixBug(filename, errorMessage, options)): one call per
\* entry, each run up to its first suspension, in the order of the entries.
RECURSIVE StartAll(_, _, _)
StartAll(slots, input, k) ==
    IF k > Len(input) THEN slots
    ELSE StartAll([slots EXCEPT ![k] = AtReturn(fixBugCall(input[k]), disk)], input, k + 1)

FixBugsParallel ==
    /\ mode = "parallel"
    /\ par.pc = "idle"
    /\ \E input \in Batches :
         /\ par' = [par EXCEPT !.pc = "waiting", !.input = input]
         /\ att' = StartAll(att, input, 1)
    /\ UNCHANGED <<mode, disk, ci, rt, spent, ledger, calc, exit, tests>>

AllSettled_any(input) == \E k \in 1..Len(input) : att[k].pc \in {"done", "threw"}

\* Promise.all resolves when every promise has resolved.
AllSettled(input) == \A k \in 1..Len(input) : att[k].pc \in {"done", "threw"}

\* await Promise.all(promises): the array of the results in the order of the
\* promises; it rejects as soon as one of them rejects.
ParallelJoin ==
    /\ mode = "parallel"
    /\ par.pc = "waiting"
    /\ IF \E k \in 1..Len(par.input) : att[k].pc = "threw"
       THEN par' = [par EXCEPT !.pc = "threw"]
       ELSE /\ AllSettled(par.input)
            /\ par' = [par EXCEPT !.pc = "done",
                                  !.result = [k \in 1..Len(par.input) |-> att[k].result]]
    /\ UNCHANGED <<mode, disk, att, ci, rt, spent, ledger, calc, exit, tests>>

----------------------------------------------------------------------------
(* The CI driver: runCIFixWithRetries *)

MoreRounds_short(attempt, maxRetries) == attempt < maxRetries

\* The loop condition: attempt <= config.maxRetries
MoreRounds(attempt, maxRetries) == attempt <= maxRetries

RerunPassed_never(testSuccess) == FALSE

\* if (testResult.success)
RerunPassed(testSuccess) == testSuccess

retriesExhausted_counter(s, lastResult) ==
    [s EXCEPT !.pc = "done",
              !.result = [finalTestsPassed |-> FALSE, attempts |-> s.maxRetries + 1]
                            @@ lastResult]

\* The return after the loop: { ...lastResult, finalTestsPassed: false,
\* attempts: config.maxRetries }
retriesExhausted(s, lastResult) ==
    [s EXCEPT !.pc = "done",
              !.result = [finalTestsPassed |-> FALSE, attempts |-> s.maxRetries]
                            @@ lastResult]

\* runCIFixWithRetries(options) up to its first suspension.
RunCIFixWithRetries ==
    /\ mode = "retries"
    /\ rt.pc = "idle"
    /\ \E maxRetries \in 1..MaxRetries, autoCommit \in BOOLEAN, autoPush \in BOOLEAN,
          test \in TestRuns :
         LET s0 == [rt EXCEPT !.maxRetries = maxRetries, !.autoCommit = autoCommit,
                              !.autoPush = autoPush]
             call == runCIFixCall(s0, test.success, test.output)
         IN  IF MoreRounds(1, maxRetries)
             THEN /\ test.success \in Verdicts(tests, disk)
                  /\ tests' = Observed(tests, disk, test.success)
                  /\ rt' = [s0 EXCEPT !.pc = "running", !.attempt = 1, !.rounds = 1]
                  /\ ci' = call.ci
                  /\ att' = call.att
             ELSE /\ rt' = retriesExhausted(s0, [pending |-> TRUE])
                  /\ UNCHANGED <<ci, att, tests>>
    /\ UNCHANGED <<mode, disk, spent, par, ledger, calc, exit>>

\* The awaited runCIFix call returns (lastResult = await runCIFix(options)):
\* the tests are run again, and the loop returns, starts the next round, or
\* ends.  lastResult is written again before it is read in a later round, so
\* the retry session does not keep it between rounds.
RetryRoundSettled ==
    /\ mode = "retries"
    /\ rt.pc = "running"
    /\ ci.pc = "done"
    /\ \E rerun \in Verdicts(tests, disk) :
         LET lastResult == ci.result
             s1 == [rt EXCEPT !.reruns = Append(@, rerun)]
             rerunDone == Observed(tests, disk, rerun)
         IN  IF RerunPassed(rerun)
             THEN /\ rt' = [s1 EXCEPT !.pc = "done",
                                      !.result = [finalTestsPassed |-> TRUE,
                                                  attempts |-> rt.attempt] @@ lastResult]
                  /\ tests' = rerunDone
                  /\ UNCHANGED <<ci, att>>
             ELSE IF MoreRounds(rt.attempt + 1, rt.maxRetries)
             THEN \E test \in TestRuns :
                    LET call == runCIFixCall(rt, test.success, test.output)
                    IN  /\ test.success \in Verdicts(rerunDone, disk)
                        /\ tests' = Observed(rerunDone, disk, test.success)
                        /\ rt' = [s1 EXCEPT !.attempt = @ + 1, !.rounds = @ + 1]
                        /\ ci' = call.ci
                        /\ att' = call.att
             ELSE /\ rt' = retriesExhausted(s1, lastResult)
                  /\ tests' = rerunDone
                  /\ UNCHANGED <<ci, att>>
    /\ UNCHANGED <<mode, disk, spent, par, ledger, calc, exit>>

----------------------------------------------------------------------------
(* The CI command: main of ci-bug-fixer.js *)

ciExitCode_strict(result) == IF result.finalTestsPassed /\ result.failed = 0 THEN 0 ELSE 1

\* process.exit(result.finalTestsPassed ? 0 : 1)
ciExitCode(result) == IF result.finalTestsPassed THEN 0 ELSE 1

\* The awaited runCIFixWithRetries call returns and main exits.  (main passes
\* maxRetries: 3, autoCommit: true, autoPush: true; the sessions explored are
\* those of every set of options.)
CIMainExit ==
    /\ mode = "retries"
    /\ ~exit.exited
    /\ rt.pc = "done"
    /\ exit' = Exited(ciExitCode(rt.result))
    /\ UNCHANGED <<mode, disk, att, ci, rt, spent, par, ledger, calc, tests>>

----------------------------------------------------------------------------
(* The cost ledger: createCostTracker *)

\* Costs in dollars passed to recordFix and canAfford.
Costs == {0, 2, 3}

\* Options of createCostTracker; 0 stands for an option that is not given.
LedgerOptions ==
    {[dailyLimit |-> 0, perFixLimit |-> 0], [dailyLimit |-> 5, perFixLimit |-> 3]}

\* Concurrent attempts that record their cost in the ledger.
Callers == {1, 2}

\* a || b on numbers
OrElse(a, b) == IF a # 0 THEN a ELSE b

\* a / b as a fraction
Divide(a, b) == [num |-> a, den |-> b]

Zero == [num |-> 0, den |-> 1]

NoLedgerCall == [op |-> "none"]

\* createCostTracker(options) on day now.  sum and count are the costs and
\* the number of the fixes recorded since the counters were last zeroed; the
\* code does not keep them.
createCostTracker(options, now) ==
    [made |-> TRUE,
     dailyLimit |-> OrElse(options.dailyLimit, DailyLimit),
     perFixLimit |-> OrElse(options.perFixLimit, PerOperationLimit),
     dailySpend |-> 0, fixCount |-> 0, lastReset |-> now, today |-> now,
     sum |-> 0, count |-> 0,
     callers |-> [k \in Callers |-> [pc |-> "idle", cost |-> 0, seen |-> 0]],
     overlapped |-> FALSE,
     last |-> NoLedgerCall]

checkAndResetDaily_never(l) == l

checkAndResetDaily(l) ==
    IF l.today # l.lastReset
    THEN [l EXCEPT !.dailySpend = 0, !.fixCount = 0, !.lastReset = l.today]
    ELSE l

accumulate_stale(current, seen, cost) == seen + cost

\* dailySpend += cost: read and write in one synchronous step; seen is the
\* value the caller could have read when it was started.
accumulate(current, seen, cost) == current + cost

recordFix_capped(l, cost, seen) ==
    LET l1 == checkAndResetDaily(l)
        l2 == IF l1.dailySpend + cost <= l1.dailyLimit
              THEN [l1 EXCEPT !.dailySpend = @ + cost, !.fixCount = @ + 1]
              ELSE l1
    IN  [state |-> l2,
         value |-> [cost |-> cost, dailySpend |-> l2.dailySpend,
                    fixCount |-> l2.fixCount, dailyLimit |-> l2.dailyLimit,
                    remainingBudget |-> l2.dailyLimit - l2.dailySpend]]

recordFix(l, cost, seen) ==
    LET l1 == checkAndResetDaily(l)
        l2 == [l1 EXCEPT !.dailySpend = accumulate(@, seen, cost), !.fixCount = @ + 1]
    IN  [state |-> l2,
         value |-> [cost |-> cost, dailySpend |-> l2.dailySpend,
                    fixCount |-> l2.fixCount, dailyLimit |-> l2.dailyLimit,
                    remainingBudget |-> l2.dailyLimit - l2.dailySpend]]

canAfford_dailyOnly(l, estimatedCost) ==
    LET l1 == checkAndResetDaily(l)
        withinDaily == l1.dailySpend + estimatedCost <= l1.dailyLimit
        withinPerFix == estimatedCost <= l1.perFixLimit
    IN  [state |-> l1,
         value |-> [allowed |-> withinDaily,
                    withinDailyLimit |-> withinDaily,
                    withinPerFixLimit |-> withinPerFix,
                    estimatedCost |-> estimatedCost,
                    dailySpend |-> l1.dailySpend,
                    remainingDaily |-> l1.dailyLimit - l1.dailySpend]]

canAfford(l, estimatedCost) ==
    LET l1 == checkAndResetDaily(l)
        withinDaily == l1.dailySpend + estimatedCost <= l1.dailyLimit
        withinPerFix == estimatedCost <= l1.perFixLimit
    IN  [state |-> l1,
         value |-> [allowed |-> withinDaily /\ withinPerFix,
                    withinDailyLimit |-> withinDaily,
                    withinPerFixLimit |-> withinPerFix,
                    estimatedCost |-> estimatedCost,
                    dailySpend |-> l1.dailySpend,
                    remainingDaily |-> l1.dailyLimit - l1.dailySpend]]

averageCost_unguarded(dailySpend, fixCount) == Divide(dailySpend, fixCount)

\* fixCount > 0 ? dailySpend / fixCount : 0
averageCost(dailySpend, fixCount) ==
    IF fixCount > 0 THEN Divide(dailySpend, fixCount) ELSE Zero

getStats(l) ==
    LET l1 == checkAndResetDaily(l)
    IN  [state |-> l1,
         value |-> [dailySpend |-> l1.dailySpend, fixCount |-> l1.fixCount,
                    dailyLimit |-> l1.dailyLimit, perFixLimit |-> l1.perFixLimit,
                    remainingBudget |-> l1.dailyLimit - l1.dailySpend,
                    averageCostPerFix |-> averageCost(l1.dailySpend, l1.fixCount),
                    lastReset |-> l1.lastReset]]

\* generateReport(): the figures the report text is made of.
generateReport(l) ==
    LET l1 == checkAndResetDaily(l)
    IN  [state |-> l1,
         value |-> [dailySpend |-> l1.dailySpend, dailyLimit |-> l1.dailyLimit,
                    fixCount |-> l1.fixCount,
                    avgCost |-> averageCost(l1.dailySpend, l1.fixCount),
                    remainingBudget |-> l1.dailyLimit - l1.dailySpend,
                    lastReset |-> l1.lastReset]]

reset(l) ==
    [state |-> [l EXCEPT !.dailySpend = 0, !.fixCount = 0, !.lastReset = l.today],
     value |-> [success |-> TRUE, message |-> "Cost tracker reset"]]

\* The tracker's counters and clock just before a call.
Snapshot(l) ==
    [dailySpend |-> l.dailySpend, fixCount |-> l.fixCount,
     lastReset |-> l.lastReset, today |-> l.today]

\* The ledger after a call: the tracker's new state, the record of the call,
\* and the costs recorded since the counters were last zeroed.
AfterCall(call, op, arg) ==
    LET zeroed == op = "reset" \/ ledger.today # ledger.lastReset
        sum0 == IF zeroed THEN 0 ELSE ledger.sum
        count0 == IF zeroed THEN 0 ELSE ledger.count
    IN  [call.state EXCEPT
            !.sum = IF op = "recordFix" THEN sum0 + arg ELSE sum0,
            !.count = IF op = "recordFix" THEN count0 + 1 ELSE count0,
            !.last = [op |-> op, arg |-> arg, pre |-> Snapshot(ledger),
                      value |-> call.value]]

\* An attempt that will record its cost is started; its proposer call is in
\* flight.
Arrive(k) ==
    /\ mode = "batch"
    /\ ledger.callers[k].pc = "idle"
    /\ \E cost \in Costs :
         ledger' = [ledger EXCEPT
            !.callers[k] = [pc |-> "waiting", cost |-> cost, seen |-> ledger.dailySpend],
            !.overlapped = \E j \in Callers : ledger.callers[j].pc = "waiting"]
    /\ UNCHANGED <<mode, disk, att, ci, rt, spent, par, calc, exit, tests>>

\* The attempt's proposer call has returned and the attempt records its cost.
\* (Among concurrent callers no record of the last call is kept.)
CallerRecords(k) ==
    /\ mode = "batch"
    /\ ledger.callers[k].pc = "waiting"
    /\ ledger.dailySpend + ledger.callers[k].cost <= SpendCap
    /\ ledger.fixCount < MaxFixes
    /\ LET c == ledger.callers[k]
           call == recordFix(ledger, c.cost, c.seen)
       IN  ledger' = [AfterCall(call, "recordFix", c.cost) EXCEPT
                        !.callers[k] = [pc |-> "idle", cost |-> 0, seen |-> 0],
                        !.last = NoLedgerCall]
    /\ UNCHANGED <<mode, disk, att, ci, rt, spent, par, calc, exit, tests>>

\* recordFix(cost) called by a sequential client.
RecordFix ==
    /\ mode = "ledger"
    /\ ledger.fixCount < MaxFixes
    /\ \E cost \in Costs :
         /\ ledger.dailySpend + cost <= SpendCap
         /\ ledger' = AfterCall(recordFix(ledger, cost, ledger.dailySpend),
                                "recordFix", cost)
    /\ UNCHANGED <<mode, disk, att, ci, rt, spent, par, calc, exit, tests>>

CanAfford ==
    /\ mode = "ledger"
    /\ \E estimatedCost \in Costs :
         ledger' = AfterCall(canAfford(ledger, estimatedCost), "canAfford", estimatedCost)
    /\ UNCHANGED <<mode, disk, att, ci, rt, spent, par, calc, exit, tests>>

GetStats ==
    /\ mode = "ledger"
    /\ ledger' = AfterCall(getStats(ledger), "getStats", 0)
    /\ UNCHANGED <<mode, disk, att, ci, rt, spent, par, calc, exit, tests>>

GenerateReport ==
    /\ mode = "ledger"
    /\ ledger' = AfterCall(generateReport(ledger), "generateReport", 0)
    /\ UNCHANGED <<mode, disk, att, ci, rt, spent, par, calc, exit, tests>>

Reset ==
    /\ mode = "ledger"
    /\ ledger' = AfterCall(reset(ledger), "reset", 0)
    /\ UNCHANGED <<mode, disk, att, ci, rt, spent, par, calc, exit, tests>>

\* Midnight: the clock's date changes; nothing runs in the tracker.
DayPasses ==
    /\ mode \in {"ledger", "batch"}
    /\ ledger.today < MaxDay
    /\ ledger' = [ledger EXCEPT !.today = @ + 1]
    /\ UNCHANGED <<mode, disk, att, ci, rt, spent, par, calc, exit, tests>>

----------------------------------------------------------------------------
(* The pure functions, called on their own *)

RECURSIVE Flatten(_)
Flatten(tokens) == IF tokens = <<>> THEN <<>> ELSE Head(tokens) \o Flatten(Tail(tokens))

\* What a proposer text is made of: fences, a language tag, line ends,
\* blanks and code.
Tokens == {Fence, Js, <<NL>>, <<" ">>, <<"x">>}

\* The proposer texts: every sequence of at most MaxTokens tokens.
Texts == {Flatten(t) : t \in UNION {[1..n -> Tokens] : n \in 0..MaxTokens}}

\* Language tags of a fenced block; the empty one stands for no tag.
LanguageTags == {<<>>, Js, Javascript, <<"t", "s">>, <<"j", "s", "x">>}

Codes == {<<"x">>, <<"x", NL, "y">>, <<"x", " ", "y">>}

\* One fenced block: opening fence with the tag, the code, closing fence.
FencedBlock(tag, code) == Fence \o tag \o <<NL>> \o code \o <<NL>> \o Fence

FencedBlocks == {FencedBlock(tag, code) : tag \in LanguageTags, code \in Codes}

\* The texts compared line by line.
LineTexts == UNION {[1..n -> {"a", "b", NL}] : n \in 0..MaxChars}

ExtractCleanCode ==
    /\ mode = "functions"
    /\ calc = NoCall
    /\ \E text \in Texts \cup FencedBlocks :
         calc' = [op |-> "extractCleanCode", text |-> text,
                  value |-> extractCleanCode(text)]
    /\ UNCHANGED <<mode, disk, att, ci, rt, spent, par, ledger, exit, tests>>

\* The outputs given to identifyFilesToFix on its own: a stack frame in any
\* file, spelled either way, and up to two mentions.
MentionedNames ==
    {Written(g, FALSE) : g \in Files \cup {"./__tests__/cart.js"} \cup VendoredPaths}

AnyOutputs ==
    {[frame |-> f, mentions |-> m] :
        f \in {NoFrame} \cup {Written(g, d) : g \in Paths, d \in BOOLEAN},
        m \in UNION {[1..n -> MentionedNames] : n \in 0..2}}

IdentifyFilesToFix ==
    /\ mode = "functions"
    /\ calc = NoCall
    /\ \E output \in AnyOutputs :
         calc' = [op |-> "identifyFilesToFix", output |-> output,
                  value |-> identifyFilesToFix(output)]
    /\ UNCHANGED <<mode, disk, att, ci, rt, spent, par, ledger, exit, tests>>

CountChangedLines ==
    /\ mode = "functions"
    /\ calc = NoCall
    /\ \E original \in LineTexts, fixed \in LineTexts :
         calc' = [op |-> "countChangedLines", original |-> original, fixed |-> fixed,
                  value |-> countChangedLines(original, fixed),
                  result |-> createSuccessResult(original, fixed, FileNames[1])]
    /\ UNCHANGED <<mode, disk, att, ci, rt, spent, par, ledger, exit, tests>>

\* The settings createFixConfig resolves.
ConfigKeys == {"model", "maxTokens", "temperature", "maxRetries", "testCommand"}

\* A value a caller gives for each setting; none of them is the loaded one.
\* (temperature in tenths.)
OptionValues ==
    [model |-> "gpt-4o", maxTokens |-> 4000, temperature |-> 1, maxRetries |-> 5,
     testCommand |-> "npm run test:unit"]

\* The options of a fixBug call: any subset of the settings given.
FixOptions == {[k \in given |-> OptionValues[k]] : given \in SUBSET ConfigKeys}

\* What getConfig(configPath) returns: the three settings of a loaded
\* bug-fixer configuration, or all five that createFixConfig reads from it.
LoadedConfigs ==
    { [model |-> "gpt-4o-mini", maxTokens |-> 2000, temperature |-> 3],
      [model |-> "gpt-4o-mini", maxTokens |-> 2000, temperature |-> 3,
       maxRetries |-> 3, testCommand |-> "npm test"] }

\* options.k || config.k, and options.temperature ?? config.temperature:
\* the option when it is given (every value explored is truthy).
OptionOr(options, config, k) == IF HasField(options, k) THEN options[k] ELSE Field(config, k)

\* { model: ..., maxTokens: ..., temperature: ..., maxRetries: ...,
\*   testCommand: ..., ...config }: the properties of config are spread last,
\* so each of them replaces the property of the same name written before it.
createFixConfig(options, config) ==
    config @@ [k \in ConfigKeys |-> OptionOr(options, config, k)]

CreateFixConfig ==
    /\ mode = "functions"
    /\ calc = NoCall
    /\ \E options \in FixOptions, config \in LoadedConfigs :
         calc' = [op |-> "createFixConfig", options |-> options, config |-> config,
                  value |-> createFixConfig(options, config)]
    /\ UNCHANGED <<mode, disk, att, ci, rt, spent, par, ledger, exit, tests>>

----------------------------------------------------------------------------
(* Specification *)

Init ==
    /\ mode \in {"single", "ci"}
    /\ disk \in [Files -> {[exists |-> FALSE, content |-> <<>>],
                           [exists |-> TRUE, content |-> OriginalContent]}]
    /\ att = [a \in Attempts |-> IdleAttempt]
    /\ ci = IdleCI
    /\ rt = IdleRetry
    /\ spent = 0
    /\ par = IdlePar
    /\ ledger = NoLedger
    /\ calc = NoCall
    /\ exit = NoExit
    /\ tests = FreeTests

Next ==
    \/ SingleCall
    \/ RunCIFix
    \/ CIAttemptSettled
    \/ \E a \in Attempts : ReadDone(a)
    \/ \E a \in Attempts : ReadFault(a)
    \/ \E a \in Attempts : ProposerReturn(a)
    \/ \E a \in Attempts : ProposerThrow(a)
    \/ \E a \in Attempts : TrackDone(a)
    \/ \E a \in Attempts : WriteComplete(a)
    \/ \E a \in Attempts : WriteFault(a)
    \/ \E a \in Attempts : TestRun(a)
    \/ \E a \in Attempts : RollbackComplete(a)
    \/ \E a \in Attempts : RollbackFault(a)

Spec == Init /\ [][Next]_vars

InitRetries ==
    /\ mode = "retries"
    /\ disk \in [Files -> {[exists |-> FALSE, content |-> <<>>],
                           [exists |-> TRUE, content |-> OriginalContent]}]
    /\ att = [a \in Attempts |-> IdleAttempt]
    /\ ci = IdleCI
    /\ rt = IdleRetry
    /\ spent = 0
    /\ par = IdlePar
    /\ ledger = NoLedger
    /\ calc = NoCall
    /\ exit = NoExit
    /\ tests = FreeTests

NextRetries ==
    \/ RunCIFixWithRetries
    \/ RetryRoundSettled
    \/ CIAttemptSettled
    \/ \E a \in Attempts : ReadDone(a)
    \/ \E a \in Attempts : ReadFault(a)
    \/ \E a \in Attempts : ProposerReturn(a)
    \/ \E a \in Attempts : ProposerThrow(a)
    \/ \E a \in Attempts : TrackDone(a)
    \/ \E a \in Attempts : WriteComplete(a)
    \/ \E a \in Attempts : WriteFault(a)
    \/ \E a \in Attempts : TestRun(a)
    \/ \E a \in Attempts : RollbackComplete(a)
    \/ \E a \in Attempts : RollbackFault(a)

SpecRetries == InitRetries /\ [][NextRetries]_vars

InitParallel ==
    /\ mode = "parallel"
    /\ disk \in [Files -> {[exists |-> FALSE, content |-> <<>>],
                           [exists |-> TRUE, content |-> OriginalContent]}]
    /\ att = [a \in Attempts |-> IdleAttempt]
    /\ ci = IdleCI
    /\ rt = IdleRetry
    /\ spent = 0
    /\ par = IdlePar
    /\ ledger = NoLedger
    /\ calc = NoCall
    /\ exit = NoExit
    /\ tests = FreeTests

NextParallel ==
    \/ FixBugsParallel
    \/ ParallelJoin
    \/ \E a \in Attempts : ReadDone(a)
    \/ \E a \in Attempts : ReadFault(a)
    \/ \E a \in Attempts : ProposerReturn(a)
    \/ \E a \in Attempts : ProposerThrow(a)
    \/ \E a \in Attempts : TrackDone(a)
    \/ \E a \in Attempts : WriteComplete(a)
    \/ \E a \in Attempts : WriteFault(a)
    \/ \E a \in Attempts : TestRun(a)
    \/ \E a \in Attempts : RollbackComplete(a)
    \/ \E a \in Attempts : RollbackFault(a)

SpecParallel == InitParallel /\ [][NextParallel]_vars

InitLedger ==
    /\ mode = "ledger"
    /\ disk = [f \in Files |-> [exists |-> TRUE, content |-> OriginalContent]]
    /\ att = [a \in Attempts |-> IdleAttempt]
    /\ ci = IdleCI
    /\ rt = IdleRetry
    /\ spent = 0
    /\ par = IdlePar
    /\ ledger \in {createCostTracker(options, 0) : options \in LedgerOptions}
    /\ calc = NoCall
    /\ exit = NoExit
    /\ tests = FreeTests

NextLedger ==
    \/ RecordFix
    \/ CanAfford
    \/ GetStats
    \/ GenerateReport
    \/ Reset
    \/ DayPasses

SpecLedger == InitLedger /\ [][NextLedger]_vars

InitBatch ==
    /\ mode = "batch"
    /\ disk = [f \in Files |-> [exists |-> TRUE, content |-> OriginalContent]]
    /\ att = [a \in Attempts |-> IdleAttempt]
    /\ ci = IdleCI
    /\ rt = IdleRetry
    /\ spent = 0
    /\ par = IdlePar
    /\ ledger \in {createCostTracker(options, 0) : options \in LedgerOptions}
    /\ calc = NoCall
    /\ exit = NoExit
    /\ tests = FreeTests

NextBatch ==
    \/ \E k \in Callers : Arrive(k)
    \/ \E k \in Callers : CallerRecords(k)
    \/ DayPasses

SpecBatch == InitBatch /\ [][NextBatch]_vars

InitFunctions ==
    /\ mode = "functions"
    /\ disk \in [Paths -> {[exists |-> FALSE, content |-> <<>>],
                           [exists |-> TRUE, content |-> OriginalContent]}]
    /\ att = [a \in Attempts |-> IdleAttempt]
    /\ ci = IdleCI
    /\ rt = IdleRetry
    /\ spent = 0
    /\ par = IdlePar
    /\ ledger = NoLedger
    /\ calc = NoCall
    /\ exit = NoExit
    /\ tests = FreeTests

NextFunctions ==
    \/ ExtractCleanCode
    \/ IdentifyFilesToFix
    \/ CountChangedLines
    \/ CreateFixConfig

SpecFunctions == InitFunctions /\ [][NextFunctions]_vars

\* A retry session begun on a complete working tree, on a day on which the
\* counter of the cost incurred has already stopped counting.
InitRetriesFair ==
    /\ mode = "retries"
    /\ disk = [f \in Files |-> [exists |-> TRUE, content |-> OriginalContent]]
    /\ att = [a \in Attempts |-> IdleAttempt]
    /\ ci = IdleCI
    /\ rt = IdleRetry
    /\ spent = SpendCap
    /\ par = IdlePar
    /\ ledger = NoLedger
    /\ calc = NoCall
    /\ exit = NoExit
    /\ tests = FreeTests

\* Every collaborator call returns: whatever step is pending (a read, the
\* proposer, a write, the tests, git) is taken in the end.
SpecRetriesFair == InitRetriesFair /\ [][NextRetries]_vars /\ WF_vars(NextRetries)

\* A retry session whose test command is a function of the working tree.
InitDeterministic ==
    /\ mode = "retries"
    /\ disk \in [Files -> {[exists |-> FALSE, content |-> <<>>],
                           [exists |-> TRUE, content |-> OriginalContent]}]
    /\ att = [a \in Attempts |-> IdleAttempt]
    /\ ci = IdleCI
    /\ rt = IdleRetry
    /\ spent = 0
    /\ par = IdlePar
    /\ ledger = NoLedger
    /\ calc = NoCall
    /\ exit = NoExit
    /\ tests = FunctionOfTree

SpecDeterministic == InitDeterministic /\ [][NextRetries]_vars

\* The two commands, each run once: the single-file one and the CI one.
InitMain ==
    /\ mode \in {"command", "retries"}
    /\ disk \in [Files -> {[exists |-> FALSE, content |-> <<>>],
                           [exists |-> TRUE, content |-> OriginalContent]}]
    /\ att = [a \in Attempts |-> IdleAttempt]
    /\ ci = IdleCI
    /\ rt = IdleRetry
    /\ spent = 0
    /\ par = IdlePar
    /\ ledger = NoLedger
    /\ calc = NoCall
    /\ exit = NoExit
    /\ tests = FreeTests

NextMain ==
    \/ Main
    \/ MainExit
    \/ RunCIFixWithRetries
    \/ RetryRoundSettled
    \/ CIAttemptSettled
    \/ CIMainExit
    \/ \E a \in Attempts : ReadDone(a)
    \/ \E a \in Attempts : ReadFault(a)
    \/ \E a \in Attempts : ProposerReturn(a)
    \/ \E a \in Attempts : ProposerThrow(a)
    \/ \E a \in Attempts : TrackDone(a)
    \/ \E a \in Attempts : WriteComplete(a)
    \/ \E a \in Attempts : WriteFault(a)
    \/ \E a \in Attempts : TestRun(a)
    \/ \E a \in Attempts : RollbackComplete(a)
    \/ \E a \in Attempts : RollbackFault(a)

SpecMain == InitMain /\ [][NextMain]_vars

TypeOK ==
    /\ mode \in {"single", "command", "ci", "retries", "parallel", "ledger", "batch", "functions"}
    /\ \A a \in Attempts : att[a].pc \in {"idle", "reading", "proposing", "tracking",
                                          "writing", "written", "rollback", "done", "threw"}
    /\ ci.pc \in {"idle", "fixing", "done", "threw"}

----------------------------------------------------------------------------
(* Properties of the fix engine *)

InLog(s, event) == \E i \in 1..Len(s.log) : s.log[i] = event

Before(s, e1, i) == \E j \in 1..(i - 1) : s.log[j] = e1

Returned(s) == s.pc = "done"

TestEvents == {"testsPass", "testsFail"}

\* C1: a fixBug call that returns success = false leaves the file with the
\* content it had just before the call.
C1_RollbackInvariant ==
    \A a \in Attempts :
        (Returned(att[a]) /\ ~att[a].result.success) => att[a].after = att[a].before

\* C2: a fixBug call that returns success = true leaves the file holding the
\* normalized proposer output, reports that content as fixedCode, and the test
\* run after the write passed.
C2_SuccessIsPatchedAndTested ==
    \A a \in Attempts :
        (Returned(att[a]) /\ att[a].result.success) =>
            /\ att[a].after = [exists |-> TRUE, content |-> extractCleanCode(att[a].text)]
            /\ att[a].result.fixedCode = att[a].after.content
            /\ att[a].testSuccess
            /\ InLog(att[a], "testsPass") /\ ~InLog(att[a], "testsFail")

C2_Witness ==
    \E a \in Attempts :
        /\ Returned(att[a]) /\ att[a].result.success
        /\ att[a].text # att[a].result.fixedCode
        /\ att[a].result.fixedCode # <<>>

\* C3: in an execution that writes the patch, the patch write completes before
\* the test command runs, the restoring write completes only after failed
\* tests, and the result is returned only after the tests and, when they
\* failed, after the restoring write has completed.
C3_EventOrder ==
    \A a \in Attempts :
        LET s == att[a]
        IN  \A i \in 1..Len(s.log) :
              /\ s.log[i] \in TestEvents => Before(s, "write", i)
              /\ s.log[i] = "rollback" => Before(s, "testsFail", i)
              /\ (s.log[i] = "return" /\ InLog(s, "write")) =>
                    /\ \E j \in 1..(i - 1) : s.log[j] \in TestEvents
                    /\ InLog(s, "testsFail") => Before(s, "rollback", i)

\* C4: a refused budget check ends the attempt as a failure carrying the
\* check's reason, with no proposer call, no write and no test run.
C4_BudgetRefusal ==
    \A a \in Attempts :
        (InLog(att[a], "isWithinLimits") /\ ~att[a].check.allowed) =>
            /\ Returned(att[a]) /\ ~att[a].result.success
            /\ att[a].check.reason # "" => att[a].result.error = att[a].check.reason
            /\ att[a].check.reason = "" => att[a].result.error = "Cost limit exceeded"
            /\ ~InLog(att[a], "generateText")
            /\ ~InLog(att[a], "write") /\ ~InLog(att[a], "rollback")
            /\ \A e \in TestEvents : ~InLog(att[a], e)
            /\ att[a].after = att[a].before

C4_Witness ==
    \E a \in Attempts :
        /\ InLog(att[a], "isWithinLimits") /\ ~att[a].check.allowed
        /\ att[a].check.reason # ""
        /\ Returned(att[a])

C8_RollbackFaultPropagates ==
    \A a \in Attempts :
        InLog(att[a], "rollbackFault") => (att[a].pc = "threw" /\ att[a].result = NoResult)

\* C9: a proposer response that is empty after normalization is a failed
\* proposal: the call returns success = false and the file keeps its
\* original content.
C9_EmptyProposalFails ==
    \A a \in Attempts :
        (Returned(att[a]) /\ InLog(att[a], "generated")
            /\ extractCleanCode(att[a].text) = <<>>) =>
            /\ ~att[a].result.success
            /\ att[a].after = att[a].before

\* C10: every attempt whose proposer call returned has recorded the cost of
\* that call by the time it returns, whether the patch was accepted or rolled
\* back.  (The only recording an attempt performs is the trackCost call.)
C10_CostAlwaysRecorded ==
    \A a \in Attempts :
        (Returned(att[a]) /\ InLog(att[a], "generated")) => att[a].tracked

\* C11: the proposer is never called for an attempt whose estimated cost added
\* to the spend incurred so far that day exceeds the daily limit.
C11_GateCountsSpend ==
    \A a \in Attempts :
        att[a].pc = "proposing" => spent + att[a].estimatedCost <= DailyLimit

\* C31: after a proposer call that returned, trackCost is called exactly once
\* when the tracker is available and the response carries usage data, and not
\* at all otherwise; whether trackCost resolves or rejects, analyzeAndFix
\* returns the normalized code, which is then applied.
C31_TrackOnce ==
    \A a \in Attempts :
        InLog(att[a], "generated") =>
            /\ att[a].trackCalls = (IF att[a].trackerAvailable /\ att[a].usage THEN 1 ELSE 0)
            /\ InLog(att[a], "trackCost") = (att[a].trackCalls = 1)
            /\ att[a].pc # "threw"
            /\ att[a].pc # "tracking" =>
                  /\ att[a].fixedCode = extractCleanCode(att[a].text)
                  /\ att[a].pc = "writing" \/ InLog(att[a], "write")
                        \/ InLog(att[a], "writeFault")

C31_Witness ==
    \E a \in Attempts :
        /\ att[a].trackCalls = 1
        /\ ~att[a].tracked
        /\ Returned(att[a])
        /\ att[a].result.success
        /\ att[a].result.fixedCode = extractCleanCode(att[a].text)

----------------------------------------------------------------------------
(* Properties of the CI driver *)

BatchInvariant(r) ==
    /\ r.successful + r.failed = r.totalAttempted
    /\ r.totalAttempted = Len(r.fixes)

NothingDone ==
    /\ ci.started = <<>>
    /\ ci.fixes = <<>>
    /\ ci.git = <<>>
    /\ \A a \in Attempts : att[a].pc = "idle"
    /\ disk = ci.diskAtStart
    /\ spent = ci.spentAtStart

\* C13: when the initial test run of a round passes, the round returns
\* testsPassedInitially = true with no attempts, and calls no proposer, writes
\* no file, spends nothing and runs no git command.
C13_InitialPass ==
    (ci.pc # "idle" /\ ci.initialPassed) =>
        /\ ci.pc = "done"
        /\ HasField(ci.result, "testsPassedInitially")
        /\ ci.result.testsPassedInitially
        /\ ci.result.fixes = <<>>
        /\ ci.result.totalAttempted = 0
        /\ NothingDone

C13_Witness ==
    /\ ci.pc = "done"
    /\ ci.initialPassed
    /\ ci.autoCommit
    /\ fileExists(FileNames[1])

\* C14: when the tests fail and no candidate file is identified, the round
\* returns normally a result with no attempts, the diagnostic error and the
\* raw test output, and calls no proposer, writes no file and runs no git
\* command.
C14_NoCandidates ==
    (ci.pc # "idle" /\ ~ci.initialPassed /\ identifyFilesToFix(ci.testOutput) = <<>>) =>
        /\ ci.pc = "done"
        /\ ci.result.fixes = <<>>
        /\ ci.result.totalAttempted = 0
        /\ Field(ci.result, "error") = "Could not identify files to fix"
        /\ HasField(ci.result, "testOutput")
        /\ ci.result.testOutput = ci.testOutput
        /\ NothingDone

C14_Witness ==
    /\ ci.pc = "done"
    /\ ~ci.initialPassed
    /\ ci.filesToFix = <<>>
    /\ ci.testOutput.mentions # <<>>
    /\ ci.autoCommit

\* C15: in a round the candidates are attempted once each, in the order of
\* their discovery, the next one only when the one before has returned its
\* result, whatever that result was; entry k of fixes is the result for
\* candidate k.
C15_SequentialInOrder ==
    (ci.pc \in {"fixing", "done"}) =>
        /\ \A i, j \in 1..Len(ci.filesToFix) :
              i # j => ci.filesToFix[i] # ci.filesToFix[j]
        /\ Len(ci.started) <= Len(ci.filesToFix)
        /\ \A k \in 1..Len(ci.started) : ci.started[k] = ci.filesToFix[k]
        /\ \A k \in 1..Len(ci.fixes) :
              /\ ci.fixes[k].filename = ci.filesToFix[k]
              /\ ci.fixes[k] # NoResult
        /\ ci.pc = "fixing" =>
              /\ Len(ci.started) = Len(ci.fixes) + 1
              /\ att[1].filename = ci.started[Len(ci.started)]
        /\ ci.pc = "done" =>
              /\ ci.started = ci.filesToFix
              /\ Len(ci.fixes) = Len(ci.filesToFix)
              /\ ci.result.fixes = ci.fixes

C15_Witness ==
    /\ ci.pc = "done"
    /\ Len(ci.fixes) = 2
    /\ ci.fixes[1].success
    /\ Field(ci.fixes[2], "error") = "Tests failed after applying fix"

GitStepAt(i, step, ok) == ci.git[i] = [step |-> step, ok |-> ok]

GitAttempted(step) == \E i \in 1..Len(ci.git) : ci.git[i].step = step

\* C16: the commit step runs if and only if auto-commit is on and an attempt
\* of the round succeeded, and only when every candidate has been attempted;
\* in it staging comes before the commit, the commit is attempted only after
\* a successful staging, and the push only after a successful commit and with
\* auto-push on.
C16_CommitStep ==
    /\ ci.git # <<>> =>
          /\ ci.pc = "done"
          /\ ci.autoCommit
          /\ CountSuccess(ci.fixes) > 0
          /\ Len(ci.fixes) = Len(ci.filesToFix)
          /\ GitAttempted("stage")
    /\ (ci.pc = "done" /\ ci.autoCommit /\ CountSuccess(ci.fixes) > 0) => ci.git # <<>>
    /\ \A i \in 1..Len(ci.git) :
          /\ ci.git[i].step = "commit" => \E j \in 1..(i - 1) : GitStepAt(j, "stage", TRUE)
          /\ ci.git[i].step = "push" =>
                /\ ci.autoPush
                /\ \E j \in 1..(i - 1) : GitStepAt(j, "commit", TRUE)
    /\ (ci.git # <<>> /\ ci.autoPush
          /\ \E j \in 1..Len(ci.git) : GitStepAt(j, "commit", TRUE)) => GitAttempted("push")

C16_Witness ==
    /\ ci.pc = "done"
    /\ \E i \in 1..Len(ci.git) : GitStepAt(i, "push", TRUE)
    /\ \E k \in 1..Len(ci.fixes) : ~ci.fixes[k].success

\* The fixes and counts of the round's result are those of its attempts, and
\* every accepted file still holds its accepted patch.
FixesUntouched ==
    /\ ci.result.fixes = ci.fixes
    /\ BatchInvariant(ci.result)
    /\ ci.result.successful = CountSuccess(ci.fixes)
    /\ \A k \in 1..Len(ci.fixes) :
          ci.fixes[k].success =>
              disk[ci.fixes[k].filename] =
                  [exists |-> TRUE, content |-> ci.fixes[k].fixedCode]

CommitFailureReported ==
    /\ HasField(ci.result, "committed")
    /\ ~ci.result.committed
    /\ Field(ci.result, "commitError") # "undefined"

CommitCreated == \E i \in 1..Len(ci.git) : GitStepAt(i, "commit", TRUE)

\* C36: the committed flag of a round's result is true exactly when a commit
\* was created in the round; when the commit was created and only the push
\* failed, the result has committed = true together with the push error.
C36_CommittedFlag ==
    ci.pc = "done" =>
        /\ (HasField(ci.result, "committed") /\ ci.result.committed) = CommitCreated
        /\ (\E i \in 1..Len(ci.git) : GitStepAt(i, "push", FALSE)) =>
              /\ ci.result.committed
              /\ ci.result.commitError = "Failed to push changes"

\* C38: a fixBug call writes no file but its own: while a round goes on and
\* when it has ended, every file accepted earlier holds its accepted patch,
\* every file rolled back earlier holds what it held when the round began,
\* and so does every file no attempt was started for.
C38_Frame ==
    ci.pc \in {"fixing", "done"} =>
        /\ \A k \in 1..Len(ci.fixes) :
              LET r == ci.fixes[k]
              IN  /\ r.success =>
                        disk[r.filename] = [exists |-> TRUE, content |-> r.fixedCode]
                  /\ Field(r, "error") = "Tests failed after applying fix" =>
                        disk[r.filename] = ci.diskAtStart[r.filename]
        /\ \A f \in Files :
              (ci.diskAtStart # <<>> /\ \A k \in 1..Len(ci.started) : ci.started[k] # f) =>
                  disk[f] = ci.diskAtStart[f]

C38_Witness ==
    /\ ci.pc = "done"
    /\ Len(ci.fixes) = 2
    /\ Field(ci.fixes[1], "error") = "Tests failed after applying fix"
    /\ ci.fixes[2].success
    /\ disk[ci.fixes[1].filename] # disk[ci.fixes[2].filename]

----------------------------------------------------------------------------
(* Properties of the retry session *)

AllRerunsFailed == \A i \in 1..Len(rt.reruns) : ~rt.reruns[i]

NoActivity ==
    /\ ci.pc = "done"
    /\ \A a \in Attempts : att[a].pc = "idle"

\* C18: the tests are run again after every round, and the session stops at
\* the first round k whose re-run passes: it returns finalTestsPassed = true
\* and attempts = k, and round k+1 is never started.
C18_StopAtFirstPass ==
    /\ rt.pc = "running" => Len(rt.reruns) = rt.rounds - 1
    /\ rt.pc = "done" => Len(rt.reruns) = rt.rounds
    /\ \A i \in 1..Len(rt.reruns) :
          rt.reruns[i] =>
              /\ i = Len(rt.reruns)
              /\ rt.pc = "done"
              /\ rt.rounds = i
              /\ rt.result.finalTestsPassed
              /\ rt.result.attempts = i
              /\ NoActivity

C18_Witness ==
    /\ rt.pc = "done"
    /\ rt.reruns = <<TRUE>>
    /\ rt.maxRetries >= 2
    /\ ci.fixes # <<>>

\* C19: when the re-run fails after every one of the maxRetries rounds, the
\* session has run exactly maxRetries rounds and returns finalTestsPassed =
\* false with attempts = maxRetries.
C19_AllRoundsFail ==
    /\ rt.rounds <= rt.maxRetries
    /\ (rt.pc = "done" /\ AllRerunsFailed) =>
          /\ rt.rounds = rt.maxRetries
          /\ Len(rt.reruns) = rt.maxRetries
          /\ ~rt.result.finalTestsPassed
          /\ rt.result.attempts = rt.maxRetries
          /\ NoActivity

C19_Witness ==
    /\ rt.pc = "done"
    /\ AllRerunsFailed
    /\ rt.maxRetries >= 2
    /\ ci.fixes # <<>>

\* C20: each round of a session takes its candidates from its own failing
\* test output and from nothing else, and the session's result carries the
\* fixes and counts of the last round only.
C20_RoundsIndependent ==
    /\ (rt.pc = "running" /\ ci.pc = "fixing") =>
          /\ ~ci.initialPassed
          /\ ci.filesToFix = identifyFilesToFix(ci.testOutput)
    /\ rt.pc # "idle" =>
          /\ Len(ci.fixes) <= Len(ci.filesToFix)
          /\ \A k \in 1..Len(ci.fixes) : ci.fixes[k].filename = ci.filesToFix[k]
    /\ rt.pc = "done" =>
          /\ rt.result.fixes = ci.fixes
          /\ Len(ci.fixes) = Len(ci.filesToFix)
          /\ rt.result.totalAttempted = Len(ci.fixes)
          /\ rt.result.successful = CountSuccess(ci.fixes)
          /\ rt.result.failed = Len(ci.fixes) - CountSuccess(ci.fixes)
          /\ HasField(rt.result, "testOutput") = HasField(ci.result, "testOutput")

\* Two rounds: the first with two candidates (two proposer calls were paid
\* for before the second began), the second with one.
C20_Witness ==
    /\ rt.pc = "done"
    /\ rt.rounds = 2
    /\ ci.spentAtStart = 4
    /\ Len(rt.result.fixes) = 1
    /\ rt.result.fixes[1].success

----------------------------------------------------------------------------
(* Properties of fixBugsParallel *)

\* C21: fixBugsParallel starts one attempt per entry and returns only when
\* all of them have returned; no attempt's failure aborts the batch or removes
\* another attempt's result, and result i is the result for entry i.
C21_ParallelJoinsAll ==
    /\ par.pc # "threw"
    /\ par.pc # "idle" =>
          \A a \in Attempts :
              IF a <= Len(par.input)
              THEN att[a].filename = par.input[a] /\ att[a].pc # "idle"
              ELSE att[a].pc = "idle"
    /\ par.pc = "done" =>
          /\ Len(par.result) = Len(par.input)
          /\ \A k \in 1..Len(par.input) :
                /\ att[k].pc = "done"
                /\ par.result[k] = att[k].result
                /\ par.result[k] # NoResult
                /\ par.result[k].filename = par.input[k]

C21_Witness ==
    /\ par.pc = "done"
    /\ Len(par.result) = 2
    /\ ~par.result[1].success
    /\ par.result[2].success
    /\ InLog(att[1], "rollback")

----------------------------------------------------------------------------
(* Properties of the cost ledger *)

\* C22: whatever the order in which concurrent attempts record their costs,
\* no update is lost: once all of them have recorded, dailySpend is the sum
\* and fixCount the number of the costs recorded since the counters were last
\* zeroed.
C22_NoLostUpdate ==
    (mode = "batch" /\ \A k \in Callers : ledger.callers[k].pc = "idle") =>
        /\ ledger.dailySpend = ledger.sum
        /\ ledger.fixCount = ledger.count

C22_Witness ==
    /\ mode = "batch"
    /\ \A k \in Callers : ledger.callers[k].pc = "idle"
    /\ ledger.overlapped
    /\ ledger.count >= 2
    /\ ledger.sum >= 5

LastCall(op) == mode = "ledger" /\ ledger.last.op = op

\* The day had changed when the last call was made.
RolledOver == ledger.last.pre.today # ledger.last.pre.lastReset

\* The counters the last call worked on: zero after a day change.
SpendBefore == IF RolledOver THEN 0 ELSE ledger.last.pre.dailySpend

FixesBefore == IF RolledOver THEN 0 ELSE ledger.last.pre.fixCount

\* C23: canAfford(e).allowed holds exactly when e <= perFixLimit and
\* dailySpend + e <= dailyLimit; the two conditions are reported separately,
\* remainingDaily = dailyLimit - dailySpend, and on the same day the call
\* leaves dailySpend and fixCount as they were.
C23_CanAfford ==
    LastCall("canAfford") =>
        LET e == ledger.last.arg
            v == ledger.last.value
        IN  /\ v.withinPerFixLimit = (e <= ledger.perFixLimit)
            /\ v.withinDailyLimit = (SpendBefore + e <= ledger.dailyLimit)
            /\ v.allowed = (e <= ledger.perFixLimit /\ SpendBefore + e <= ledger.dailyLimit)
            /\ v.remainingDaily = ledger.dailyLimit - SpendBefore
            /\ ~RolledOver =>
                  /\ ledger.dailySpend = ledger.last.pre.dailySpend
                  /\ ledger.fixCount = ledger.last.pre.fixCount

C23_Witness ==
    /\ LastCall("canAfford")
    /\ ~RolledOver
    /\ ledger.last.value.withinDailyLimit
    /\ ~ledger.last.value.withinPerFixLimit
    /\ ledger.dailySpend > 0

\* C24: a call made on a day other than lastReset first zeroes dailySpend and
\* fixCount and sets lastReset to that day; on the day of lastReset only
\* reset zeroes the counters, and a change of the date alone changes nothing.
C24_LazyRollover ==
    /\ (mode = "ledger" /\ ledger.last.op \notin {"none", "reset"}) =>
          LET recorded == ledger.last.op = "recordFix"
          IN  /\ ledger.lastReset = ledger.last.pre.today
              /\ ledger.dailySpend = SpendBefore + (IF recorded THEN ledger.last.arg ELSE 0)
              /\ ledger.fixCount = FixesBefore + (IF recorded THEN 1 ELSE 0)
    /\ LastCall("reset") =>
          /\ ledger.lastReset = ledger.last.pre.today
          /\ ledger.dailySpend = 0
          /\ ledger.fixCount = 0
    /\ LastCall("none") =>
          /\ ledger.lastReset = 0
          /\ ledger.dailySpend = 0
          /\ ledger.fixCount = 0

C24_Witness ==
    /\ LastCall("canAfford")
    /\ RolledOver
    /\ ledger.last.pre.dailySpend > 0
    /\ ledger.today # ledger.lastReset

\* C25: recordFix(c) never rejects: whatever the limits, it adds exactly c to
\* dailySpend and 1 to fixCount; so dailySpend is always the sum, and
\* fixCount the number, of the costs recorded since the counters were last
\* zeroed.
C25_RecordNeverRejects ==
    /\ LastCall("recordFix") =>
          /\ ledger.dailySpend = SpendBefore + ledger.last.arg
          /\ ledger.fixCount = FixesBefore + 1
          /\ ledger.last.value.dailySpend = ledger.dailySpend
          /\ ledger.last.value.fixCount = ledger.fixCount
          /\ ledger.last.value.remainingBudget = ledger.dailyLimit - ledger.dailySpend
    /\ mode = "ledger" =>
          /\ ledger.dailySpend = ledger.sum
          /\ ledger.fixCount = ledger.count

C25_Witness ==
    /\ LastCall("recordFix")
    /\ ledger.last.arg > ledger.perFixLimit
    /\ ledger.last.pre.dailySpend > 0
    /\ ~RolledOver
    /\ ledger.dailySpend > ledger.dailyLimit

\* C26: getStats reports remainingBudget = dailyLimit - dailySpend and
\* averageCostPerFix = dailySpend / fixCount, the average being exactly 0
\* when fixCount = 0, also right after a reset or a day change.
C26_Stats ==
    LastCall("getStats") =>
        LET v == ledger.last.value
        IN  /\ v.dailySpend = ledger.dailySpend
            /\ v.fixCount = ledger.fixCount
            /\ v.remainingBudget = ledger.dailyLimit - ledger.dailySpend
            /\ ledger.fixCount > 0 =>
                  /\ v.averageCostPerFix.den > 0
                  /\ v.averageCostPerFix.num * ledger.fixCount
                        = ledger.dailySpend * v.averageCostPerFix.den
            /\ ledger.fixCount = 0 => v.averageCostPerFix = Zero

C26_Witness ==
    /\ LastCall("getStats")
    /\ RolledOver
    /\ ledger.last.pre.fixCount > 0
    /\ ledger.last.value.averageCostPerFix = Zero

----------------------------------------------------------------------------
(* Properties of the pure functions *)

Called(op) == mode = "functions" /\ calc.op = op

\* C27: normalization is idempotent: extractCleanCode applied to its own
\* result returns that result; text without fences and surrounding
\* whitespace is returned unchanged.
C27_NormalizeIdempotent ==
    Called("extractCleanCode") =>
        /\ extractCleanCode(calc.value) = calc.value
        /\ (~startsWith(calc.text, Fence) /\ trim(calc.text) = calc.text) =>
              calc.value = calc.text

\* A sequence of characters holds a fence.
HoldsFence(text) == \E i \in 1..Len(text) : startsWith(Drop(text, i - 1), Fence)

\* C28: for a response that is one fenced block, with or without a language
\* tag, extractCleanCode returns exactly the enclosed code: no fence, no tag,
\* no whitespace around it.
C28_FencedBlock ==
    Called("extractCleanCode") =>
        \A tag \in LanguageTags, code \in Codes :
            calc.text = FencedBlock(tag, code) =>
                /\ calc.value = code
                /\ ~HoldsFence(calc.value)

\* The positions below the larger number of lines at which two texts differ.
ChangedPositions(original, fixed) ==
    LET o == split(original)
        f == split(fixed)
    IN  {i \in 1..Max(Len(o), Len(f)) :
            ~(i <= Len(o) /\ i <= Len(f) /\ o[i] = f[i])}

\* C29: linesChanged is the number of line positions, below the larger of
\* the two numbers of lines, at which original and fixed differ, a position
\* that only one of them has counting as changed; it is 0 exactly when the
\* lines are the same and never more than that larger number.
C29_LinesChanged ==
    Called("countChangedLines") =>
        /\ calc.value = Cardinality(ChangedPositions(calc.original, calc.fixed))
        /\ calc.result.linesChanged = calc.value
        /\ (calc.value = 0) = (split(calc.original) = split(calc.fixed))
        /\ calc.value <= Max(Len(split(calc.original)), Len(split(calc.fixed)))

C29_Witness ==
    /\ Called("countChangedLines")
    /\ Len(split(calc.original)) = 1
    /\ Len(split(calc.fixed)) = 2
    /\ calc.value = 1

\* C30: every path identifyFilesToFix returns exists, is no test file, is not
\* under node_modules and occurs once; the file of the first stack frame,
\* when it is kept, comes first.
C30_CandidatesFiltered ==
    Called("identifyFilesToFix") =>
        LET files == calc.value
            frame == calc.output.frame
        IN  /\ \A i \in 1..Len(files) :
                  /\ fileExists(files[i])
                  /\ files[i] \notin TestFilePaths
                  /\ files[i] \notin VendoredPaths
            /\ \A i, j \in 1..Len(files) : i # j => files[i] # files[j]
            /\ (frame # NoFrame /\ \E i \in 1..Len(files) : files[i] = frame.path) =>
                  files[1] = frame.path

----------------------------------------------------------------------------
(* Properties of the commands *)

\* C32: the CI command exits with 0 exactly when the session returned
\* finalTestsPassed = true, whatever its counts of successful and failed
\* fixes and whatever became of the commit and the push; the single-file
\* command exits with 0 exactly when fixBug returned success = true, and with
\* 1 otherwise.
C32_ExitCodes ==
    exit.exited =>
        /\ exit.code \in {0, 1}
        /\ mode = "retries" =>
              /\ rt.pc = "done"
              /\ (exit.code = 0) = rt.result.finalTestsPassed
        /\ mode = "command" =>
              (exit.code = 0) = (Returned(att[1]) /\ att[1].result.success)

C32_Witness ==
    /\ mode = "retries"
    /\ exit = Exited(0)
    /\ rt.result.failed > 0
    /\ HasField(rt.result, "committed")
    /\ ~rt.result.committed

----------------------------------------------------------------------------
(* Properties that rest on the test command *)

\* C33: with a test command that is a function of the working tree, a round
\* in which an attempt succeeded ends with a tree that passes the tests; so
\* the session returns finalTestsPassed = true in that round, and a commit is
\* made from a passing tree only.
C33_AcceptedTreePasses ==
    tests.deterministic =>
        /\ (ci.pc = "done" /\ CountSuccess(ci.fixes) > 0) => disk \in tests.passing
        /\ (rt.pc = "done" /\ CountSuccess(ci.fixes) > 0) =>
              /\ rt.result.finalTestsPassed
              /\ rt.result.attempts = rt.rounds
        /\ CommitCreated => disk \in tests.passing

----------------------------------------------------------------------------
(* Properties of concurrent attempts *)

\* The entries of the batch name different files.
DistinctFiles == \A i, j \in 1..Len(par.input) : i # j => par.input[i] # par.input[j]

\* The file of entry b holds what it held before the batch, or the patch
\* that attempt b returned as accepted.
OriginalOrAccepted(b) ==
    \/ disk[par.input[b]] = att[b].before
    \/ /\ Returned(att[b])
       /\ att[b].result.success
       /\ disk[par.input[b]] = [exists |-> TRUE, content |-> att[b].result.fixedCode]

\* Attempt a runs the test command in this step.
RunsTests(a) == att[a].pc = "written" /\ att'[a].pc # "written"

\* C34: in a batch over distinct files, whenever the test command runs to
\* verify one attempt's patch, the file of every other entry holds its
\* original content or an already accepted patch.
C34_TestsRunInIsolation ==
    [][\A a \in Attempts :
          (DistinctFiles /\ RunsTests(a)) =>
              \A b \in (1..Len(par.input)) \ {a} : OriginalOrAccepted(b)]_vars

\* When the batch has returned, the file of entry k holds attempt k's
\* normalized patch if result k is a success, and what it held before the
\* batch if result k is a failure.
OwnOutcome(k) ==
    IF par.result[k].success
    THEN disk[par.input[k]] =
            [exists |-> TRUE, content |-> extractCleanCode(att[k].text)]
    ELSE disk[par.input[k]] = att[k].before

\* C35: when no two entries of the batch name the same file, then under
\* every interleaving each file holds, when the batch returns, its own
\* normalized patch if its result is a success and its content of before the
\* batch if its result is a failure.
C35_PerFileOutcome ==
    (par.pc = "done" /\ DistinctFiles) =>
        \A k \in 1..Len(par.input) : OwnOutcome(k)

----------------------------------------------------------------------------
(* Properties of the configuration *)

\* C37: the options of a fixBug call take precedence over the loaded
\* configuration: for each of model, maxTokens, temperature, maxRetries and
\* testCommand the resolved configuration holds the option's value whenever
\* the option is given.
C37_OptionsTakePrecedence ==
    Called("createFixConfig") =>
        \A k \in ConfigKeys :
            HasField(calc.options, k) => calc.value[k] = calc.options[k]

----------------------------------------------------------------------------
(* Termination of the retry session *)

\* What the session's result tells of its rounds.
SessionCounts ==
    /\ rt.rounds >= 1
    /\ rt.rounds <= rt.maxRetries
    /\ rt.result.attempts = rt.rounds
    /\ HasField(rt.result, "totalAttempted")
    /\ HasField(rt.result, "successful")
    /\ HasField(rt.result, "failed")
    /\ rt.result.totalAttempted = Len(ci.fixes)
    /\ rt.result.successful = CountSuccess(ci.fixes)
    /\ rt.result.failed = CountFailed(ci.fixes)

\* C39: for every maxRetries >= 1, when every collaborator call returns, the
\* session terminates; it has then run at least 1 and at most maxRetries
\* rounds, its attempts is the number of rounds run, and its result carries
\* the totalAttempted, successful and failed counts of a round.
C39_Terminates ==
    /\ [](rt.pc = "done" => SessionCounts)
    /\ <>(rt.pc = "done")

C39_Witness ==
    /\ rt.pc = "done"
    /\ rt.rounds = 2
    /\ rt.maxRetries = 2
    /\ rt.result.finalTestsPassed
    /\ rt.result.successful = 1
    /\ rt.result.failed = 1

====
